---- MODULE Spec2Model ----
(***************************************************************************)
(* WAASP whitelist service: the contact store, the audit log and the       *)
(* operations of WhitelistService (check, add_contact, update_contact,     *)
(* remove_contact) with the audit writes of AuditService.                  *)
(*                                                                         *)
(* Every request builds a fresh WhitelistService over the same database,   *)
(* so the state of the program is the content of the two tables.  One      *)
(* action models one whole service call, its commits included.             *)
(*                                                                         *)
(* A service call is not one transaction: it queries, commits its contact  *)
(* change and commits its audit entry in a second transaction.  The steps  *)
(* section models the calls of concurrent workers one transaction at a     *)
(* time.                                                                   *)
(***************************************************************************)
EXTENDS Integers, Sequences, FiniteSets, TLC

VARIABLES
    contacts,      \* rows of table "contacts"
    audit_logs,    \* rows of table "audit_logs", in insertion order
    next_id,       \* next surrogate key of table "contacts"
    last,          \* the last service call: which one, what it raised, what it returned
                   \* (a CheckResult for check, a contact for add and update, a
                   \* boolean for remove; NoContact when add or update raised)
    inflight,      \* per worker, the service call it is executing step by step:
                   \* position, arguments and local variables
    now            \* the clock of the server, in days

vars == <<contacts, audit_logs, next_id, last, inflight, now>>

----------------------------------------------------------------------------
(* Values *)

\* Python None / SQL NULL in a string-typed column or argument.
None == "<None>"

\* contact.id of "no contact" (contact_id NULL)
NoId == 0

TrustLevel == {"sovereign", "trusted", "limited", "blocked"}

AuditAction == {"allowed", "blocked", "limited",
                "contact_added", "contact_updated", "contact_removed", "trust_changed",
                "check_performed", "api_access"}

\* The value of a Contact-typed expression that is None.
NoContact == [id |-> NoId, sender_id |-> None, channel |-> None,
              trust_level |-> None, name |-> None, notes |-> None]

\* Python truthiness of a `str | None` value: None and "" are falsy.
Truthy(v) == v # None /\ v # ""

----------------------------------------------------------------------------
(* Contact model: TrustLevel.from_string and the capability properties *)

AsciiUpper == "ABCDEFGHIJKLMNOPQRSTUVWXYZ"
AsciiLower == "abcdefghijklmnopqrstuvwxyz"

\* The character at the position of ch in alphabet from, taken from alphabet
\* to; ch itself when from does not have it.
translate(ch, from, to) ==
    IF \E i \in 1..Len(from) : SubSeq(from, i, i) = ch
    THEN LET i == CHOOSE j \in 1..Len(from) : SubSeq(from, j, j) = ch
         IN  SubSeq(to, i, i)
    ELSE ch

\* str.lower, for ASCII text
RECURSIVE lower(_)
lower(value) ==
    IF value = "" THEN ""
    ELSE translate(SubSeq(value, 1, 1), AsciiUpper, AsciiLower)
            \o lower(SubSeq(value, 2, Len(value)))

\* TrustLevel(value), the Enum lookup by value: ValueError for what is no
\* member's value.
TrustLevel_value(value) ==
    IF value \in TrustLevel THEN [error |-> None, level |-> value]
    ELSE [error |-> "ValueError", level |-> None]

\* from_string without the lowering.
from_string_case_sensitive(value) ==
    LET r == TrustLevel_value(value)
    IN  IF r.error = "ValueError" THEN [error |-> None, level |-> "blocked"] ELSE r

\* TrustLevel.from_string: the outcome of the call, what it raised and what it
\* returned.
from_string(value) ==
    LET r == TrustLevel_value(lower(value))
    IN  IF r.error = "ValueError" THEN [error |-> None, level |-> "blocked"] ELSE r

\* Contact.is_allowed that counts only the levels that can trigger actions.
is_allowed_actions_only(contact) == contact.trust_level \in {"sovereign", "trusted"}

\* Contact.is_allowed
is_allowed(contact) == contact.trust_level # "blocked"

\* Contact.can_trigger_actions
can_trigger_actions(contact) == contact.trust_level \in {"sovereign", "trusted"}

\* Contact.is_sovereign
is_sovereign(contact) == contact.trust_level = "sovereign"

----------------------------------------------------------------------------
(* Bounds and input sets *)

MaxAudit == 2
MaxAuditOne == 4
MaxAuditFields == 2
MaxRequests == 3
MaxAuditPartial == 3
MaxAuditContext == 2
MaxAuditPreview == 2
MaxAuditOutside == 2
MaxAuditApi == 2
MaxAuditList == 3
MaxAuditStats == 3
MaxCleanupRequests == 3
MaxUpdateRequests == 3
MaxAuditAuth == 3
MaxNow == 2

Senders  == {"+441", "+442"}
\* channel values of stored records, and of check requests (which may name a
\* channel that no record was ever added for)
Channels      == {None, "", "telegram"}
CheckChannels == Channels \cup {"whatsapp"}

OneSender   == "+441"
OneTrust    == {"trusted", "blocked"}

\* n characters of padding.
RECURSIVE Pad(_)
Pad(n) == IF n = 0 THEN ""
          ELSE IF n % 2 = 0 THEN LET h == Pad(n \div 2) IN h \o h
          ELSE "a" \o Pad(n - 1)

\* Message previews around the truncation limit: none, empty, short, of 499,
\* 500, 501, 503 and 600 characters; the characters near the cut differ from
\* the padding.
LongPreviews == {None, "", "hi",
                 Pad(495) \o "stuv",
                 Pad(495) \o "stuvw",
                 Pad(495) \o "stuvwx",
                 Pad(495) \o "stuvwxyz",
                 Pad(495) \o "stuvwxyz" \o Pad(97)}

\* Every spelling of a word in upper and lower case letters.
RECURSIVE CaseVariants(_)
CaseVariants(word) ==
    IF word = "" THEN {""}
    ELSE LET ch == SubSeq(word, 1, 1)
         IN  {h \o t : h \in {ch, translate(ch, AsciiLower, AsciiUpper)},
                       t \in CaseVariants(SubSeq(word, 2, Len(word)))}

\* Free text that names no level: empty, blank, padded, cut short, extended,
\* misspelt, a member's name rather than its value, other words.
NoLevelTexts == {"", " ", " trusted", "trusted ", "Trusted ", "trust", "truste",
                 "trustedd", "blocke", "un-blocked", "limit", "sovereing",
                 "TrustLevel.TRUSTED", "invalid", "admin", "allowed", "none",
                 "None", "null", "0", "1", "true"}

\* Free text handed to TrustLevel.from_string.
ParseInputs == UNION {CaseVariants(level) : level \in TrustLevel} \cup NoLevelTexts

\* Workers that serve requests at the same time, and the channels they are
\* asked about.
Workers      == {1, 2}
StepChannels == {None, "telegram"}

\* A worker that serves no request and has served none (n counts the requests
\* it has taken).
Idle == [pc |-> "idle", op |-> "none", sender_id |-> None, channel |-> None,
         trust_level |-> None, contact |-> NoContact, old_trust |-> None,
         log_entry |-> NoId, error |-> None, result |-> None, n |-> 0,
         days |-> None, cutoff |-> None, deleted |-> None]

\* The levels the concurrent requests assign: add assigns the first, update
\* the second or none.
StepAddTrust    == {"trusted"}
StepUpdateTrust == {None, "blocked"}

\* The levels that concurrent updates of one contact assign.
UpdateTrust == {"limited", "blocked"}

\* Retention periods of the cleanup task, in days.
RetentionDays == {0, 1, 2}

\* optional arguments: None = not supplied
Names    == {None, "Ann"}
Notes    == {None, "vip"}
Previews == {None, "hi"}

----------------------------------------------------------------------------
(* Storage *)

\* Contact.query.filter_by(sender_id=..., channel=...): channel=None is IS NULL.
filter_by(store, sender_id, channel) ==
    {c \in store : c.sender_id = sender_id /\ c.channel = channel}

\* Query.first() without ORDER BY: the row returned when several match is not
\* determined, so the result is the set of rows it may return.
first(rows) == IF rows = {} THEN {NoContact} ELSE rows

\* A plain (non-unique) index: it rejects nothing.
ix_contacts_sender_channel_not_unique(store, sender_id, channel) == FALSE

\* Unique index ix_contacts_sender_channel on (sender_id, channel).  SQL NULLs
\* are distinct from each other, so the index constrains only rows whose
\* channel is not NULL.
ix_contacts_sender_channel(store, sender_id, channel) ==
    channel # None /\ filter_by(store, sender_id, channel) # {}

\* _find_contact without the fall-back to the global record.
find_contact_no_fallback(store, sender_id, channel) ==
    IF Truthy(channel)
    THEN first(filter_by(store, sender_id, channel))
    ELSE first(filter_by(store, sender_id, None))

\* _find_contact whose fall-back filters on sender_id only.
find_contact_any_channel(store, sender_id, channel) ==
    LET specific == IF Truthy(channel)
                    THEN first(filter_by(store, sender_id, channel))
                    ELSE {NoContact}
    IN  (specific \ {NoContact})
          \cup (IF NoContact \in specific
                THEN first({c \in store : c.sender_id = sender_id})
                ELSE {})

\* WhitelistService._find_contact: the contacts it may return.
find_contact(store, sender_id, channel) ==
    LET specific == IF Truthy(channel)
                    THEN first(filter_by(store, sender_id, channel))
                    ELSE {NoContact}
    IN  (specific \ {NoContact})
          \cup (IF NoContact \in specific
                THEN first(filter_by(store, sender_id, None))
                ELSE {})

----------------------------------------------------------------------------
(* Decision *)

\* check that lets an unresolved sender through.
CheckResult_fail_open(contact) ==
    IF contact = NoContact
    THEN [allowed |-> TRUE, trust_level |-> "limited", contact |-> NoId,
          reason |-> "Sender has limited access"]
    ELSE IF contact.trust_level = "blocked"
    THEN [allowed |-> FALSE, trust_level |-> "blocked", contact |-> contact.id,
          reason |-> "Sender is explicitly blocked"]
    ELSE [allowed |-> TRUE, trust_level |-> contact.trust_level, contact |-> contact.id,
          reason |-> "Sender is " \o contact.trust_level]

\* check that lets a contact through on the word of its notes.
CheckResult_notes_override(contact) ==
    IF contact = NoContact
    THEN [allowed |-> FALSE, trust_level |-> "blocked", contact |-> NoId,
          reason |-> "Unknown sender - not in whitelist"]
    ELSE IF contact.notes = "vip"
    THEN [allowed |-> TRUE, trust_level |-> "trusted", contact |-> contact.id,
          reason |-> "Sender is trusted"]
    ELSE IF contact.trust_level = "blocked"
    THEN [allowed |-> FALSE, trust_level |-> "blocked", contact |-> contact.id,
          reason |-> "Sender is explicitly blocked"]
    ELSE IF contact.trust_level = "limited"
    THEN [allowed |-> TRUE, trust_level |-> "limited", contact |-> contact.id,
          reason |-> "Sender has limited access"]
    ELSE [allowed |-> TRUE, trust_level |-> contact.trust_level, contact |-> contact.id,
          reason |-> "Sender is " \o contact.trust_level]

\* check that refuses a limited sender.
CheckResult_limited_refused(contact) ==
    IF contact = NoContact
    THEN [allowed |-> FALSE, trust_level |-> "blocked", contact |-> NoId,
          reason |-> "Unknown sender - not in whitelist"]
    ELSE IF contact.trust_level = "blocked"
    THEN [allowed |-> FALSE, trust_level |-> "blocked", contact |-> contact.id,
          reason |-> "Sender is explicitly blocked"]
    ELSE IF contact.trust_level = "limited"
    THEN [allowed |-> FALSE, trust_level |-> "limited", contact |-> contact.id,
          reason |-> "Sender has limited access"]
    ELSE [allowed |-> TRUE, trust_level |-> contact.trust_level, contact |-> contact.id,
          reason |-> "Sender is " \o contact.trust_level]

\* The CheckResult that check builds for the resolved contact.
CheckResult(contact) ==
    IF contact = NoContact
    THEN [allowed |-> FALSE, trust_level |-> "blocked", contact |-> NoId,
          reason |-> "Unknown sender - not in whitelist"]
    ELSE IF contact.trust_level = "blocked"
    THEN [allowed |-> FALSE, trust_level |-> "blocked", contact |-> contact.id,
          reason |-> "Sender is explicitly blocked"]
    ELSE IF contact.trust_level = "limited"
    THEN [allowed |-> TRUE, trust_level |-> "limited", contact |-> contact.id,
          reason |-> "Sender has limited access"]
    ELSE [allowed |-> TRUE, trust_level |-> contact.trust_level, contact |-> contact.id,
          reason |-> "Sender is " \o contact.trust_level]

\* The audit action without the priority of LIMITED over ALLOWED.
check_action_no_limited(result) ==
    IF result.allowed THEN "allowed" ELSE "blocked"

\* The audit action check logs for a result.
check_action(result) ==
    IF result.trust_level = "limited" THEN "limited"
    ELSE IF result.allowed THEN "allowed" ELSE "blocked"

----------------------------------------------------------------------------
(* Audit writes *)

\* The longest preview log_check stores, and what it keeps of a longer one
\* before the "..." marker.
PreviewMax  == 500
PreviewKept == 497

\* A truncation that cuts at the limit and then appends the marker.
truncated_past_limit(message_preview) ==
    IF Truthy(message_preview) /\ Len(message_preview) > PreviewMax
    THEN SubSeq(message_preview, 1, PreviewMax) \o "..."
    ELSE message_preview

\* log_check: "Truncate message preview for safety" (message_preview[:497] + "...")
truncated(message_preview) ==
    IF Truthy(message_preview) /\ Len(message_preview) > PreviewMax
    THEN SubSeq(message_preview, 1, PreviewKept) \o "..."
    ELSE message_preview

\* AuditLog.created_at (column of Base): the server's timestamp at the insert.
server_timestamp == now

\* AuditService.log_check: the row it inserts.
log_check(sender_id, action, channel, contact, reason, message_preview) ==
    [action |-> action, sender_id |-> sender_id, channel |-> channel,
     contact_id |-> contact.id, message_preview |-> truncated(message_preview),
     decision_reason |-> reason, metadata_json |-> None,
     created_at |-> server_timestamp]

\* AuditService.log_admin_action: the row it inserts (performed_by is never passed).
log_admin_action(action, sender_id, channel, contact, reason) ==
    [action |-> action, sender_id |-> sender_id, channel |-> channel,
     contact_id |-> contact.id, message_preview |-> None,
     decision_reason |-> reason, metadata_json |-> None,
     created_at |-> server_timestamp]

----------------------------------------------------------------------------
(* Operations *)

Init ==
    /\ now = 0
    /\ contacts = {}
    /\ audit_logs = <<>>
    /\ next_id = 1
    /\ last = [op |-> "none", error |-> None, result |-> None]
    /\ inflight = [w \in Workers |-> Idle]

\* A check that registers an unknown sender as a blocked contact.
check_registers_unknown(sender_id, channel, message_preview) ==
    \E contact \in find_contact(contacts, sender_id, channel) :
       LET result == CheckResult(contact)
       IN  /\ audit_logs' = Append(audit_logs,
                  log_check(sender_id, check_action(result), channel, contact,
                            result.reason, message_preview))
           /\ last' = [op |-> "check", error |-> None, result |-> result]
           /\ IF contact = NoContact
              THEN /\ contacts' = contacts \cup
                        {[id |-> next_id, sender_id |-> sender_id, channel |-> channel,
                          trust_level |-> "blocked", name |-> None, notes |-> None]}
                   /\ next_id' = next_id + 1
              ELSE UNCHANGED <<contacts, next_id>>

\* WhitelistService.check
check(sender_id, channel, message_preview) ==
    /\ \E contact \in find_contact(contacts, sender_id, channel) :
         LET result == CheckResult(contact)
         IN  /\ audit_logs' = Append(audit_logs,
                    log_check(sender_id, check_action(result), channel, contact,
                              result.reason, message_preview))
             /\ last' = [op |-> "check", error |-> None, result |-> result]
    /\ UNCHANGED <<contacts, next_id>>

\* WhitelistService.add_contact
add_contact(sender_id, trust_level, channel, name, notes) ==
    \E existing \in find_contact(contacts, sender_id, channel) :
      IF existing # NoContact
      THEN \* raise ValueError(f"Contact {sender_id} already exists")
           /\ last' = [op |-> "add", error |-> "ValueError: already exists",
                       result |-> NoContact]
           /\ UNCHANGED <<contacts, audit_logs, next_id>>
      ELSE IF ix_contacts_sender_channel(contacts, sender_id, channel)
      THEN \* db.session.commit() raises IntegrityError; nothing is committed
           /\ last' = [op |-> "add", error |-> "IntegrityError", result |-> NoContact]
           /\ UNCHANGED <<contacts, audit_logs, next_id>>
      ELSE LET contact == [id |-> next_id, sender_id |-> sender_id, channel |-> channel,
                           trust_level |-> trust_level, name |-> name, notes |-> notes]
           IN  /\ contacts' = contacts \cup {contact}
               /\ next_id' = next_id + 1
               /\ audit_logs' = Append(audit_logs,
                      log_admin_action("contact_added", sender_id, channel, contact,
                                       "Added with trust level " \o trust_level))
               /\ last' = [op |-> "add", error |-> None, result |-> contact]

\* add_contact called without trust_level, were the default the column default
\* of Contact.trust_level.
add_contact_default_blocked(sender_id, channel, name, notes) ==
    add_contact(sender_id, "blocked", channel, name, notes)

\* WhitelistService.add_contact called without trust_level
\* (trust_level: TrustLevel = TrustLevel.TRUSTED).
add_contact_default(sender_id, channel, name, notes) ==
    add_contact(sender_id, "trusted", channel, name, notes)

\* update_contact that reads old_trust after it has assigned the new level.
update_contact_old_trust_late(sender_id, channel, trust_level, name, notes) ==
    \E contact \in find_contact(contacts, sender_id, channel) :
      IF contact = NoContact
      THEN /\ last' = [op |-> "update", error |-> "ValueError: not found",
                       result |-> NoContact]
           /\ UNCHANGED <<contacts, audit_logs, next_id>>
      ELSE LET updated == [contact EXCEPT
                             !.trust_level = IF trust_level # None THEN trust_level ELSE @,
                             !.name = IF name # None THEN name ELSE @,
                             !.notes = IF notes # None THEN notes ELSE @]
               old_trust == updated.trust_level
           IN  /\ contacts' = (contacts \ {contact}) \cup {updated}
               /\ audit_logs' = Append(audit_logs,
                      IF trust_level # None /\ trust_level # old_trust
                      THEN log_admin_action("trust_changed", sender_id, channel, updated,
                               "Trust changed from " \o old_trust \o " to " \o trust_level)
                      ELSE log_admin_action("contact_updated", sender_id, channel, updated,
                               "Contact details updated"))
               /\ last' = [op |-> "update", error |-> None, result |-> updated]
               /\ UNCHANGED next_id

\* update_contact that assigns all three fields, supplied or not.
update_contact_assigns_all(sender_id, channel, trust_level, name, notes) ==
    \E contact \in find_contact(contacts, sender_id, channel) :
      IF contact = NoContact
      THEN /\ last' = [op |-> "update", error |-> "ValueError: not found",
                       result |-> NoContact]
           /\ UNCHANGED <<contacts, audit_logs, next_id>>
      ELSE LET old_trust == contact.trust_level
               updated == [contact EXCEPT
                             !.trust_level = IF trust_level # None THEN trust_level ELSE @,
                             !.name = name,
                             !.notes = notes]
           IN  /\ contacts' = (contacts \ {contact}) \cup {updated}
               /\ audit_logs' = Append(audit_logs,
                      IF trust_level # None /\ trust_level # old_trust
                      THEN log_admin_action("trust_changed", sender_id, channel, updated,
                               "Trust changed from " \o old_trust \o " to " \o trust_level)
                      ELSE log_admin_action("contact_updated", sender_id, channel, updated,
                               "Contact details updated"))
               /\ last' = [op |-> "update", error |-> None, result |-> updated]
               /\ UNCHANGED next_id

\* WhitelistService.update_contact (trust_level, name, notes: None = not supplied)
update_contact(sender_id, channel, trust_level, name, notes) ==
    \E contact \in find_contact(contacts, sender_id, channel) :
      IF contact = NoContact
      THEN \* raise ValueError(f"Contact {sender_id} not found")
           /\ last' = [op |-> "update", error |-> "ValueError: not found",
                       result |-> NoContact]
           /\ UNCHANGED <<contacts, audit_logs, next_id>>
      ELSE LET old_trust == contact.trust_level
               updated == [contact EXCEPT
                             !.trust_level = IF trust_level # None THEN trust_level ELSE @,
                             !.name = IF name # None THEN name ELSE @,
                             !.notes = IF notes # None THEN notes ELSE @]
           IN  /\ contacts' = (contacts \ {contact}) \cup {updated}
               /\ audit_logs' = Append(audit_logs,
                      IF trust_level # None /\ trust_level # old_trust
                      THEN log_admin_action("trust_changed", sender_id, channel, updated,
                               "Trust changed from " \o old_trust \o " to " \o trust_level)
                      ELSE log_admin_action("contact_updated", sender_id, channel, updated,
                               "Contact details updated"))
               /\ last' = [op |-> "update", error |-> None, result |-> updated]
               /\ UNCHANGED next_id

\* ondelete="CASCADE": the entries of the deleted contact are deleted with it.
set_null_cascade(logs, contact_id) ==
    SelectSeq(logs, LAMBDA e : e.contact_id # contact_id)

\* No ondelete action: the entries keep the id of the deleted contact.
set_null_no_action(logs, contact_id) == logs

\* ForeignKey("contacts.id", ondelete="SET NULL") on audit_logs.contact_id
set_null(logs, contact_id) ==
    [i \in DOMAIN logs |->
        IF logs[i].contact_id = contact_id
        THEN [logs[i] EXCEPT !.contact_id = NoId]
        ELSE logs[i]]

\* WhitelistService.remove_contact
remove_contact(sender_id, channel) ==
    \E contact \in find_contact(contacts, sender_id, channel) :
      IF contact = NoContact
      THEN \* return False
           /\ last' = [op |-> "remove", error |-> None, result |-> FALSE]
           /\ UNCHANGED <<contacts, audit_logs, next_id>>
      ELSE /\ contacts' = contacts \ {contact}
           /\ audit_logs' = Append(set_null(audit_logs, contact.id),
                  log_admin_action("contact_removed", sender_id, channel, NoContact,
                                   "Contact removed from whitelist"))
           /\ last' = [op |-> "remove", error |-> None, result |-> TRUE]
           /\ UNCHANGED next_id

\* Contact.created_at (column of Base): assigned by the server when the row is
\* created, so a row created later has a later created_at.  The surrogate key
\* grows the same way and stands for it.
created_at(contact) == contact.id

\* query.order_by(Contact.created_at.desc()).all()
RECURSIVE order_by_created_at_desc(_)
order_by_created_at_desc(rows) ==
    IF rows = {} THEN <<>>
    ELSE LET newest == CHOOSE k \in rows :
                          \A other \in rows : created_at(other) <= created_at(k)
         IN  <<newest>> \o order_by_created_at_desc(rows \ {newest})

\* WhitelistService.list_contacts: `if trust_level:` and `if channel:` apply a
\* filter only for a truthy argument.  The call writes nothing.
list_contacts(trust_level, channel) ==
    LET by_trust   == IF Truthy(trust_level)
                      THEN {k \in contacts : k.trust_level = trust_level}
                      ELSE contacts
        by_channel == IF Truthy(channel)
                      THEN {k \in by_trust : k.channel = channel \/ k.channel = None}
                      ELSE by_trust
    IN  /\ last' = [op |-> "list", error |-> None,
                    result |-> [trust_level |-> trust_level, channel |-> channel,
                                contacts |-> order_by_created_at_desc(by_channel)]]
        /\ UNCHANGED <<contacts, audit_logs, next_id>>

----------------------------------------------------------------------------
(* Calls that share one session *)

\* Calls made in one application context (a test, a CLI command, a task) share
\* one db.session.  No operation rolls the session back: once a commit has
\* raised in its flush (IntegrityError), the session's transaction stays
\* inactive and every later use of the session raises PendingRollbackError.
session_deactive == last.error \in {"IntegrityError", "PendingRollbackError"}

\* The result of a check that raised.
NoResult == [allowed |-> FALSE, trust_level |-> None, contact |-> NoId,
             reason |-> None]

\* A call whose first use of the session raises.
PendingRollback(op, result) ==
    /\ last' = [op |-> op, error |-> "PendingRollbackError", result |-> result]
    /\ UNCHANGED <<contacts, audit_logs, next_id>>

check_in_context(sender_id, channel, message_preview) ==
    IF session_deactive
    THEN PendingRollback("check", NoResult)
    ELSE check(sender_id, channel, message_preview)

add_in_context(sender_id, trust_level, channel, name, notes) ==
    IF session_deactive
    THEN PendingRollback("add", NoContact)
    ELSE add_contact(sender_id, trust_level, channel, name, notes)

update_in_context(sender_id, channel, trust_level, name, notes) ==
    IF session_deactive
    THEN PendingRollback("update", NoContact)
    ELSE update_contact(sender_id, channel, trust_level, name, notes)

\* (a remove that raised has returned neither True nor False; last.result is
\* FALSE then, to be read with last.error)
remove_in_context(sender_id, channel) ==
    IF session_deactive
    THEN PendingRollback("remove", FALSE)
    ELSE remove_contact(sender_id, channel)

\* The most entries one read of the audit API asks the query for.
AuditLimitCap == 1000

Min(a, b) == IF a <= b THEN a ELSE b
Max(a, b) == IF a >= b THEN a ELSE b

\* AuditService.get_logs, by the number of entries it returns (action and
\* channel filters not supplied).  The query is "... LIMIT :limit OFFSET
\* :offset": with a negative limit SQLite, the default database, applies no
\* upper bound, and PostgreSQL refuses the statement.
get_logs(sender_id, limit, offset) ==
    LET matching == IF Truthy(sender_id)
                    THEN SelectSeq(audit_logs, LAMBDA e : e.sender_id = sender_id)
                    ELSE audit_logs
        rest == Max(Len(matching) - offset, 0)
    IN  IF limit < 0
        THEN {[error |-> None, count |-> rest],
              [error |-> "DataError", count |-> 0]}
        ELSE {[error |-> None, count |-> Min(limit, rest)]}

\* GET /audit/ (list_audit_logs): the response carries the number of entries
\* returned and echoes limit and offset.
list_audit_logs(sender_id, limit, offset) ==
    /\ \E logs \in get_logs(sender_id, Min(limit, AuditLimitCap), offset) :
          last' = [op |-> "list_audit_logs", error |-> logs.error,
                   result |-> [count |-> logs.count, limit |-> limit,
                               offset |-> offset]]
    /\ UNCHANGED <<contacts, audit_logs, next_id>>

\* SELECT count(*) FROM audit_logs WHERE action = :action
count_action(action) ==
    Cardinality({i \in DOMAIN audit_logs : audit_logs[i].action = action})

\* get_stats whose breakdown lists every action kind, those without entries
\* with count zero.
get_stats_all_kinds ==
    /\ last' = [op |-> "stats", error |-> None,
                result |-> [total_entries |-> Len(audit_logs),
                            by_action |-> [action \in AuditAction |-> count_action(action)]]]
    /\ UNCHANGED <<contacts, audit_logs, next_id>>

\* AuditService.get_stats: count() of the table, and one group of GROUP BY
\* action for each action kind that has rows.  The call writes nothing.
get_stats ==
    LET present == {audit_logs[i].action : i \in DOMAIN audit_logs}
    IN  /\ last' = [op |-> "stats", error |-> None,
                    result |-> [total_entries |-> Len(audit_logs),
                                by_action |-> [action \in present |-> count_action(action)]]]
        /\ UNCHANGED <<contacts, audit_logs, next_id>>

----------------------------------------------------------------------------
(* HTTP API: request validation in front of the service *)

\* A key that the JSON body of a request does not have (None is JSON null).
Missing == "<missing>"

\* str.strip, for the blank character
RECURSIVE strip(_)
strip(v) ==
    IF Len(v) > 0 /\ SubSeq(v, 1, 1) = " " THEN strip(SubSeq(v, 2, Len(v)))
    ELSE IF Len(v) > 0 /\ SubSeq(v, Len(v), Len(v)) = " "
    THEN strip(SubSeq(v, 1, Len(v) - 1))
    ELSE v

\* CheckRequest.sender_id: str, required, min_length=1
CheckRequest_sender_id(v) == v \notin {Missing, None} /\ Len(v) >= 1

\* ContactBase.sender_id: str, required, min_length=1, max_length=255
SenderIdMax == 255
ContactBase_sender_id(v) ==
    v \notin {Missing, None} /\ Len(v) >= 1 /\ Len(v) <= SenderIdMax

\* What a trust_level string of a request body is rejected as.
Invalid == "<invalid>"

\* A trust_level field read as TrustLevel.from_string reads free text: what is
\* no level becomes blocked.
TrustLevelStr_lenient(v) == IF v \in TrustLevel THEN v ELSE "blocked"

\* TrustLevelStr = Literal["sovereign", "trusted", "limited", "blocked"]
TrustLevelStr(v) == IF v \in TrustLevel THEN v ELSE Invalid

\* A request that the API answers with 400 "Validation failed", before any
\* service call.
ValidationFailed(op, result) ==
    /\ last' = [op |-> op, error |-> "400 Validation failed", result |-> result]
    /\ UNCHANGED <<contacts, audit_logs, next_id>>

\* POST /check/ (check_sender), message_preview not supplied
check_sender(sender_id, channel) ==
    IF ~CheckRequest_sender_id(sender_id)
    THEN ValidationFailed("check", NoResult)
    ELSE check(sender_id, channel, None)

\* GET /check/<sender_id> (check_sender_get): the route takes any non-empty
\* path segment, the handler validates nothing.
check_sender_get(sender_id, channel) ==
    IF sender_id = ""
    THEN /\ last' = [op |-> "check", error |-> "404 Not Found", result |-> NoResult]
         /\ UNCHANGED <<contacts, audit_logs, next_id>>
    ELSE check(sender_id, channel, None)

\* POST /contacts/ (create_contact), name and notes not supplied.  The
\* constraints of sender_id are checked on the string as sent, then
\* normalize_sender_id strips it; trust_level defaults to "trusted" and is
\* not nullable.
create_contact(sender_id, trust_level, channel) ==
    LET level == IF trust_level = Missing THEN "trusted" ELSE TrustLevelStr(trust_level)
    IN  IF ~ContactBase_sender_id(sender_id) \/ level = Invalid
        THEN ValidationFailed("add", NoContact)
        ELSE add_contact(strip(sender_id), level, channel, None, None)

\* PATCH /contacts/<sender_id> (update_contact of api/contacts.py), name and
\* notes not supplied; trust_level is optional and nullable.
api_update_contact(sender_id, channel, trust_level) ==
    LET level == IF trust_level \in {Missing, None} THEN None
                 ELSE TrustLevelStr(trust_level)
    IN  IF level = Invalid
        THEN ValidationFailed("update", NoContact)
        ELSE update_contact(sender_id, channel, level, None, None)

\* str.startswith
startswith(s, prefix) ==
    Len(s) >= Len(prefix) /\ SubSeq(s, 1, Len(prefix)) = prefix

\* auth_header[7:]
BearerLen == 7

\* require_api_token: what the decorator does with a request, given the
\* configured token (settings.api_token), the address of the peer and the
\* Authorization header (absent: ""): it runs the handler or answers 401 or
\* 403.
require_api_token(api_token, remote_addr, authorization) ==
    LET auth_header == IF authorization = Missing THEN "" ELSE authorization
    IN  IF ~Truthy(api_token) THEN "run"
        ELSE IF remote_addr \in {"127.0.0.1", "::1", "localhost"} THEN "run"
        ELSE IF ~startswith(auth_header, "Bearer ") THEN "401"
        ELSE IF SubSeq(auth_header, BearerLen + 1, Len(auth_header)) # api_token
        THEN "403"
        ELSE "run"

\* A request to a protected endpoint, POST /contacts/: the handler runs behind
\* the decorator.
protected_create_contact(api_token, remote_addr, authorization, sender_id, trust_level, channel) ==
    LET decision == require_api_token(api_token, remote_addr, authorization)
    IN  IF decision = "run"
        THEN create_contact(sender_id, trust_level, channel)
        ELSE /\ last' = [op |-> "auth", error |-> decision, result |-> NoContact]
             /\ UNCHANGED <<contacts, audit_logs, next_id>>

\* db.session (db of waasp/models/base.py): usable inside an application
\* context, RuntimeError outside of one.
session_usable(app_context) == app_context

\* A check that takes the missing context for an unknown sender.
check_without_context_fail_closed(app_context, sender_id, channel, message_preview) ==
    IF session_usable(app_context)
    THEN check(sender_id, channel, message_preview)
    ELSE /\ last' = [op |-> "check", error |-> None, result |-> CheckResult(NoContact)]
         /\ UNCHANGED <<contacts, audit_logs, next_id>>

\* WhitelistService.check called inside or outside an application context: the
\* first use of the session is the lookup (whitelist.py:65), before any
\* decision or audit write, and its error is caught nowhere.
check_with_context(app_context, sender_id, channel, message_preview) ==
    IF session_usable(app_context)
    THEN check(sender_id, channel, message_preview)
    ELSE /\ last' = [op |-> "check", error |-> "RuntimeError", result |-> NoResult]
         /\ UNCHANGED <<contacts, audit_logs, next_id>>

----------------------------------------------------------------------------
(* Steps: the same operations, one query or one commit at a time *)

\* Worker w takes a request for operation op.
request(w, op, sender_id, channel) ==
    [Idle EXCEPT !.op = op, !.sender_id = sender_id, !.channel = channel,
                 !.n = inflight[w].n + 1]

\* The call of worker w raises: nothing more of it runs.
raise(w, error) ==
    inflight' = [inflight EXCEPT ![w].pc = "done", ![w].error = error]

\* check, up to the contact lookup (whitelist.py:65).
check_lookup(w, sender_id, channel) ==
    /\ inflight[w].pc = "idle"
    /\ \E contact \in find_contact(contacts, sender_id, channel) :
          inflight' = [inflight EXCEPT ![w] =
                         [request(w, "check", sender_id, channel) EXCEPT
                             !.pc = "check_log", !.contact = contact]]
    /\ UNCHANGED <<contacts, audit_logs, next_id, last>>

\* check whose audit write is best effort: a failed commit is swallowed and the
\* decision is returned all the same.
check_log_best_effort(w) ==
    /\ inflight[w].pc = "check_log"
    /\ LET f == inflight[w]
           result == CheckResult(f.contact)
       IN  \/ /\ audit_logs' = Append(audit_logs,
                     log_check(f.sender_id, check_action(result), f.channel,
                               f.contact, result.reason, None))
              /\ inflight' = [inflight EXCEPT ![w].pc = "check_return",
                                              ![w].log_entry = Len(audit_logs) + 1]
           \/ /\ inflight' = [inflight EXCEPT ![w].pc = "check_return"]
              /\ UNCHANGED audit_logs
    /\ UNCHANGED <<contacts, next_id, last>>

\* check, the audit write: log_check adds the entry and commits
\* (audit.py:58-59); the commit either succeeds or raises.
check_log(w) ==
    /\ inflight[w].pc = "check_log"
    /\ LET f == inflight[w]
           result == CheckResult(f.contact)
       IN  \/ /\ audit_logs' = Append(audit_logs,
                     log_check(f.sender_id, check_action(result), f.channel,
                               f.contact, result.reason, None))
              /\ inflight' = [inflight EXCEPT ![w].pc = "check_return",
                                              ![w].log_entry = Len(audit_logs) + 1]
           \/ /\ raise(w, "commit failed")
              /\ UNCHANGED audit_logs
    /\ UNCHANGED <<contacts, next_id, last>>

\* check, the return of the CheckResult to the caller.
check_return(w) ==
    /\ inflight[w].pc = "check_return"
    /\ inflight' = [inflight EXCEPT ![w].pc = "done", ![w].result = "CheckResult"]
    /\ UNCHANGED <<contacts, audit_logs, next_id, last>>

\* add_contact, up to the lookup of an existing contact (whitelist.py:150-153).
add_lookup(w, sender_id, trust_level, channel) ==
    /\ inflight[w].pc = "idle"
    /\ \E existing \in find_contact(contacts, sender_id, channel) :
          LET f == [request(w, "add", sender_id, channel) EXCEPT
                       !.trust_level = trust_level]
          IN  inflight' = [inflight EXCEPT ![w] =
                 IF existing # NoContact
                 THEN [f EXCEPT !.pc = "done", !.error = "ValueError: already exists"]
                 ELSE [f EXCEPT !.pc = "add_commit"]]
    /\ UNCHANGED <<contacts, audit_logs, next_id, last>>

\* add_contact, the insert and its commit (whitelist.py:155-163).
add_commit(w) ==
    /\ inflight[w].pc = "add_commit"
    /\ LET f == inflight[w]
           contact == [id |-> next_id, sender_id |-> f.sender_id, channel |-> f.channel,
                       trust_level |-> f.trust_level, name |-> None, notes |-> None]
       IN  IF ix_contacts_sender_channel(contacts, f.sender_id, f.channel)
           THEN /\ raise(w, "IntegrityError")
                /\ UNCHANGED <<contacts, next_id>>
           ELSE /\ contacts' = contacts \cup {contact}
                /\ next_id' = next_id + 1
                /\ inflight' = [inflight EXCEPT ![w].pc = "add_log",
                                                ![w].contact = contact]
    /\ UNCHANGED <<audit_logs, last>>

\* The audit write of an administrative operation of worker w:
\* log_admin_action adds the entry and commits (audit.py:106-107); the commit
\* either succeeds, and the operation returns, or raises.
admin_log(w, entry, result) ==
    /\ \/ /\ audit_logs' = Append(audit_logs, entry)
          /\ inflight' = [inflight EXCEPT ![w].pc = "done", ![w].result = result,
                                          ![w].log_entry = Len(audit_logs) + 1]
       \/ /\ raise(w, "commit failed")
          /\ UNCHANGED audit_logs
    /\ UNCHANGED <<contacts, next_id, last>>

\* add_contact, the audit write and the return (whitelist.py:172-180).
add_log(w) ==
    /\ inflight[w].pc = "add_log"
    /\ LET f == inflight[w]
       IN  admin_log(w, log_admin_action("contact_added", f.sender_id, f.channel,
                            f.contact, "Added with trust level " \o f.trust_level),
                     "contact")

\* update_contact, up to the lookup (whitelist.py:205-209); name and notes are
\* not supplied.
update_lookup(w, sender_id, channel, trust_level) ==
    /\ inflight[w].pc = "idle"
    /\ \E contact \in find_contact(contacts, sender_id, channel) :
          LET f == [request(w, "update", sender_id, channel) EXCEPT
                       !.trust_level = trust_level]
          IN  inflight' = [inflight EXCEPT ![w] =
                 IF contact = NoContact
                 THEN [f EXCEPT !.pc = "done", !.error = "ValueError: not found"]
                 ELSE [f EXCEPT !.pc = "update_commit", !.contact = contact,
                                !.old_trust = contact.trust_level]]
    /\ UNCHANGED <<contacts, audit_logs, next_id, last>>

\* update_contact, the assignment and its commit (whitelist.py:211-218).  The
\* session writes the columns whose value differs from the loaded one, to the
\* row of the loaded id: no UPDATE when nothing differs, StaleDataError when
\* the row is gone.
update_commit(w) ==
    /\ inflight[w].pc = "update_commit"
    /\ LET f == inflight[w]
           dirty == f.trust_level # None /\ f.trust_level # f.contact.trust_level
           rows == {r \in contacts : r.id = f.contact.id}
       IN  IF ~dirty
           THEN /\ inflight' = [inflight EXCEPT ![w].pc = "update_log"]
                /\ UNCHANGED contacts
           ELSE IF rows = {}
           THEN /\ raise(w, "StaleDataError")
                /\ UNCHANGED contacts
           ELSE /\ contacts' = (contacts \ rows) \cup
                                  {[r EXCEPT !.trust_level = f.trust_level] : r \in rows}
                /\ inflight' = [inflight EXCEPT ![w].pc = "update_log",
                                                ![w].contact.trust_level = f.trust_level]
    /\ UNCHANGED <<audit_logs, next_id, last>>

\* update_contact, the audit write and the return (whitelist.py:220-244).
update_log(w) ==
    /\ inflight[w].pc = "update_log"
    /\ LET f == inflight[w]
       IN  admin_log(w,
              IF f.trust_level # None /\ f.trust_level # f.old_trust
              THEN log_admin_action("trust_changed", f.sender_id, f.channel, f.contact,
                       "Trust changed from " \o f.old_trust \o " to " \o f.trust_level)
              ELSE log_admin_action("contact_updated", f.sender_id, f.channel, f.contact,
                       "Contact details updated"),
              "contact")

\* remove_contact, up to the lookup (whitelist.py:256-259).
remove_lookup(w, sender_id, channel) ==
    /\ inflight[w].pc = "idle"
    /\ \E contact \in find_contact(contacts, sender_id, channel) :
          LET f == request(w, "remove", sender_id, channel)
          IN  inflight' = [inflight EXCEPT ![w] =
                 IF contact = NoContact
                 THEN [f EXCEPT !.pc = "done", !.result = "False"]
                 ELSE [f EXCEPT !.pc = "remove_commit", !.contact = contact]]
    /\ UNCHANGED <<contacts, audit_logs, next_id, last>>

\* remove_contact, the delete and its commit (whitelist.py:261-262): deletes the
\* row of the loaded id and severs the audit entries that reference it; a row
\* that is already gone only draws a warning.
remove_commit(w) ==
    /\ inflight[w].pc = "remove_commit"
    /\ LET f == inflight[w]
       IN  /\ contacts' = {r \in contacts : r.id # f.contact.id}
           /\ audit_logs' = set_null(audit_logs, f.contact.id)
           /\ inflight' = [inflight EXCEPT ![w].pc = "remove_log"]
    /\ UNCHANGED <<next_id, last>>

\* remove_contact, the audit write and the return (whitelist.py:270-277).
remove_log(w) ==
    /\ inflight[w].pc = "remove_log"
    /\ LET f == inflight[w]
       IN  admin_log(w, log_admin_action("contact_removed", f.sender_id, f.channel,
                            NoContact, "Contact removed from whitelist"),
                     "True")

\* The worker has answered its request and takes the next one.
next_request(w) ==
    /\ inflight[w].pc = "done"
    /\ inflight' = [inflight EXCEPT ![w] = [Idle EXCEPT !.n = inflight[w].n]]
    /\ UNCHANGED <<contacts, audit_logs, next_id, last>>

\* cleanup_old_audit_logs, the cutoff (notifications.py:75): now less the
\* retention period.
cleanup_cutoff(w, days) ==
    /\ inflight[w].pc = "idle"
    /\ inflight' = [inflight EXCEPT ![w] =
                      [request(w, "cleanup", None, None) EXCEPT
                          !.pc = "cleanup_delete", !.days = days,
                          !.cutoff = now - days]]
    /\ UNCHANGED <<contacts, audit_logs, next_id, last>>

\* A cleanup that also deletes the entries created at the cutoff.
cleanup_delete_at_cutoff(w) ==
    /\ inflight[w].pc = "cleanup_delete"
    /\ LET kept == SelectSeq(audit_logs,
                             LAMBDA e : ~(e.created_at <= inflight[w].cutoff))
       IN  /\ audit_logs' = kept
           /\ inflight' = [inflight EXCEPT ![w].pc = "cleanup_return",
                                           ![w].deleted = Len(audit_logs) - Len(kept)]
    /\ UNCHANGED <<contacts, next_id, last>>

\* cleanup_old_audit_logs, the bulk DELETE and its commit
\* (notifications.py:77-78): one statement over the rows that are in the
\* table when it runs; it returns the number of rows it matched.
cleanup_delete(w) ==
    /\ inflight[w].pc = "cleanup_delete"
    /\ LET kept == SelectSeq(audit_logs,
                             LAMBDA e : ~(e.created_at < inflight[w].cutoff))
       IN  /\ audit_logs' = kept
           /\ inflight' = [inflight EXCEPT ![w].pc = "cleanup_return",
                                           ![w].deleted = Len(audit_logs) - Len(kept)]
    /\ UNCHANGED <<contacts, next_id, last>>

\* cleanup_old_audit_logs, the return of {"deleted": ..., "cutoff": ...}.
cleanup_return(w) ==
    /\ inflight[w].pc = "cleanup_return"
    /\ inflight' = [inflight EXCEPT ![w].pc = "done",
                                    ![w].result = inflight[w].deleted]
    /\ UNCHANGED <<contacts, audit_logs, next_id, last>>

\* A day passes.
tick ==
    /\ now' = now + 1
    /\ UNCHANGED <<contacts, audit_logs, next_id, last, inflight>>

----------------------------------------------------------------------------
(* Specifications *)

\* A service call that runs on its own from its first query to its return, no
\* worker being in the middle of another one.  The audit log never grows past
\* cap: a call that would append to a full log is left out of the model; a
\* call that appends nothing stays possible.
Within(cap) == Len(audit_logs') <= cap /\ UNCHANGED <<inflight, now>>

\* Spec: two senders, every trust level; name, notes
\* and message_preview are not supplied.
Check == \E s \in Senders, c \in CheckChannels :
            check(s, c, None) /\ Within(MaxAudit)

Add == \E s \in Senders, t \in TrustLevel, c \in Channels :
          add_contact(s, t, c, None, None) /\ Within(MaxAudit)

Update == \E s \in Senders, c \in Channels, t \in TrustLevel \cup {None} :
             update_contact(s, c, t, None, None) /\ Within(MaxAudit)

Remove == \E s \in Senders, c \in Channels :
             remove_contact(s, c) /\ Within(MaxAudit)

Next == Check \/ Add \/ Update \/ Remove

Spec == Init /\ [][Next]_vars

\* SpecOne: longer runs over one sender and two trust levels.
CheckOne == \E c \in Channels :
               check(OneSender, c, None) /\ Within(MaxAuditOne)

AddOne == \E t \in OneTrust, c \in Channels :
             add_contact(OneSender, t, c, None, None) /\ Within(MaxAuditOne)

UpdateOne == \E c \in Channels, t \in OneTrust \cup {None} :
                update_contact(OneSender, c, t, None, None) /\ Within(MaxAuditOne)

RemoveOne == \E c \in Channels :
                remove_contact(OneSender, c) /\ Within(MaxAuditOne)

NextOne == CheckOne \/ AddOne \/ UpdateOne \/ RemoveOne

SpecOne == Init /\ [][NextOne]_vars

\* SpecFields: one sender, with name, notes and message_preview supplied or not,
\* and add_contact called with and without trust_level.
CheckFields == \E c \in Channels, p \in Previews :
                  check(OneSender, c, p) /\ Within(MaxAuditFields)

AddFields == \E t \in OneTrust, c \in Channels, n \in Names, x \in Notes :
                add_contact(OneSender, t, c, n, x) /\ Within(MaxAuditFields)

AddDefaultFields == \E c \in Channels, n \in Names, x \in Notes :
                       add_contact_default(OneSender, c, n, x) /\ Within(MaxAuditFields)

UpdateFields == \E c \in Channels, t \in OneTrust \cup {None}, n \in Names, x \in Notes :
                   update_contact(OneSender, c, t, n, x) /\ Within(MaxAuditFields)

RemoveFields == \E c \in Channels :
                   remove_contact(OneSender, c) /\ Within(MaxAuditFields)

NextFields == CheckFields \/ AddFields \/ AddDefaultFields \/ UpdateFields \/ RemoveFields

SpecFields == Init /\ [][NextFields]_vars

\* SpecContext: every call is made in the same application context, through
\* the same session.
CheckContext == \E s \in Senders, c \in Channels :
                   check_in_context(s, c, None) /\ Within(MaxAuditContext)

AddContext == \E s \in Senders, t \in OneTrust, c \in Channels :
                 add_in_context(s, t, c, None, None) /\ Within(MaxAuditContext)

UpdateContext == \E s \in Senders, c \in Channels, t \in OneTrust \cup {None} :
                    update_in_context(s, c, t, None, None) /\ Within(MaxAuditContext)

RemoveContext == \E s \in Senders, c \in Channels :
                    remove_in_context(s, c) /\ Within(MaxAuditContext)

NextContext == CheckContext \/ AddContext \/ UpdateContext \/ RemoveContext

SpecContext == Init /\ [][NextContext]_vars

\* SpecPreview: checks of one sender, known or not, with message previews
\* around the truncation limit.
CheckPreview == \E c \in StepChannels, p \in LongPreviews :
                   check(OneSender, c, p) /\ Within(MaxAuditPreview)

AddPreview == \E t \in OneTrust :
                 add_contact(OneSender, t, None, None, None) /\ Within(MaxAuditPreview)

NextPreview == CheckPreview \/ AddPreview

SpecPreview == Init /\ [][NextPreview]_vars

\* SpecOutside: adds, and checks made inside and outside of an application
\* context.

CheckOutside == \E s \in Senders, c \in Channels, app_context \in BOOLEAN :
                   check_with_context(app_context, s, c, None) /\ Within(MaxAuditOutside)

AddOutside == \E s \in Senders, t \in OneTrust, c \in Channels :
                 add_contact(s, t, c, None, None) /\ Within(MaxAuditOutside)

NextOutside == CheckOutside \/ AddOutside

SpecOutside == Init /\ [][NextOutside]_vars

\* SpecAuditRead: reads of the audit API over logs of fewer and of more than
\* 1000 entries, each log written by that many checks of an unknown sender.
LogSizes    == {0, 3, 1000, 1001, 1200}
ReadLimits  == {-5, -1, 0, 1, 100, 1000, 1001, 5000}
ReadOffsets == {0, 1, 300}

InitAuditRead ==
    /\ now = 0
    /\ contacts = {}
    /\ next_id = 1
    /\ inflight = [w \in Workers |-> Idle]
    /\ \E n \in LogSizes :
          /\ audit_logs = [i \in 1..n |->
                             log_check(OneSender, check_action(CheckResult(NoContact)), None,
                                       NoContact, CheckResult(NoContact).reason, None)]
          /\ last = IF n = 0
                    THEN [op |-> "none", error |-> None, result |-> None]
                    ELSE [op |-> "check", error |-> None, result |-> CheckResult(NoContact)]

ListAuditLogs == \E s \in {None, OneSender}, limit \in ReadLimits, offset \in ReadOffsets :
                    list_audit_logs(s, limit, offset) /\ UNCHANGED <<inflight, now>>

NextAuditRead == ListAuditLogs

SpecAuditRead == InitAuditRead /\ [][NextAuditRead]_vars

\* SpecApi: requests to the HTTP API with well-formed and malformed sender_id
\* and trust_level fields.
SenderInputs == {Missing, None, "", "  ", "+441", " +441"}
PathSenders  == {"", " ", "+441"}
TrustInputs  == {Missing, None, "trusted", "blocked", "Trusted", ""}

CheckSender == \E sender_id \in SenderInputs, c \in StepChannels :
                  check_sender(sender_id, c) /\ Within(MaxAuditApi)

CheckSenderGet == \E sender_id \in PathSenders, c \in StepChannels :
                     check_sender_get(sender_id, c) /\ Within(MaxAuditApi)

CreateContact == \E sender_id \in SenderInputs, t \in TrustInputs, c \in StepChannels :
                    create_contact(sender_id, t, c) /\ Within(MaxAuditApi)

UpdateContact == \E sender_id \in PathSenders \ {""}, c \in StepChannels, t \in TrustInputs :
                    api_update_contact(sender_id, c, t) /\ Within(MaxAuditApi)

NextApi == CheckSender \/ CheckSenderGet \/ CreateContact \/ UpdateContact

SpecApi == Init /\ [][NextApi]_vars

\* SpecParse: TrustLevel.from_string applied to free text.
InitParse ==
    /\ now = 0
    /\ contacts = {}
    /\ audit_logs = <<>>
    /\ next_id = 1
    /\ \E value \in ParseInputs :
          last = [op |-> "none", error |-> None,
                  result |-> [value |-> value, level |-> None]]
    /\ inflight = [w \in Workers |-> Idle]

FromString ==
    /\ last.op = "none"
    /\ LET r == from_string(last.result.value)
       IN  last' = [op |-> "from_string", error |-> r.error,
                    result |-> [value |-> last.result.value, level |-> r.level]]
    /\ UNCHANGED <<contacts, audit_logs, next_id, inflight, now>>

NextParse == FromString

SpecParse == InitParse /\ [][NextParse]_vars

\* SpecList: contacts of one sender are added and the store is listed, with
\* every combination of the two filters.
AddList == \E t \in OneTrust, c \in Channels :
              add_contact(OneSender, t, c, None, None) /\ Within(MaxAuditList)

ListContacts == \E t \in OneTrust \cup {None}, c \in CheckChannels :
                   list_contacts(t, c) /\ Within(MaxAuditList)

NextList == AddList \/ ListContacts

SpecList == Init /\ [][NextList]_vars

\* SpecStats: calls for one sender fill the audit log with entries of several
\* kinds, and the statistics are read in between.
CheckStats == \E c \in StepChannels :
                 check(OneSender, c, None) /\ Within(MaxAuditStats)

AddStats == \E t \in OneTrust :
               add_contact(OneSender, t, None, None, None) /\ Within(MaxAuditStats)

UpdateStats == \E t \in OneTrust \cup {None} :
                  update_contact(OneSender, None, t, "Ann", None) /\ Within(MaxAuditStats)

RemoveStats == remove_contact(OneSender, None) /\ Within(MaxAuditStats)

GetStats == get_stats /\ Within(MaxAuditStats)

NextStats == CheckStats \/ AddStats \/ UpdateStats \/ RemoveStats \/ GetStats

SpecStats == Init /\ [][NextStats]_vars

\* SpecAuth: requests to a protected endpoint, from the host itself and from
\* elsewhere, with and without a configured token, with well-formed and
\* malformed Authorization headers.
ApiTokens     == {None, "", "s3cret"}
RemoteAddrs   == {"127.0.0.1", "::1", "10.0.0.5"}
AuthHeaders   == {Missing, "", "Bearer s3cret", "Bearer wrong", "Bearer ",
                  "Bearer s3cret ", "Bearer  s3cret", "bearer s3cret",
                  "Bearers3cret", "Basic s3cret", "s3cret"}

ProtectedRequest ==
    \E api_token \in ApiTokens, remote_addr \in RemoteAddrs,
       authorization \in AuthHeaders, s \in Senders, t \in OneTrust,
       c \in StepChannels :
          protected_create_contact(api_token, remote_addr, authorization, s, t, c)
             /\ Within(MaxAuditAuth)

NextAuth == ProtectedRequest

SpecAuth == Init /\ [][NextAuth]_vars

\* SpecPartial: contacts of one sender are added with and without name and
\* notes, then updated with any subset of the three fields.
AddPartial == \E t \in OneTrust, c \in StepChannels, n \in Names, x \in Notes :
                 add_contact(OneSender, t, c, n, x) /\ Within(MaxAuditPartial)

UpdatePartial == \E c \in StepChannels, t \in OneTrust \cup {None}, n \in Names, x \in Notes :
                    update_contact(OneSender, c, t, n, x) /\ Within(MaxAuditPartial)

NextPartial == AddPartial \/ UpdatePartial

SpecPartial == Init /\ [][NextPartial]_vars

\* SpecSteps: two workers serve requests about one sender at the same time,
\* each call advancing one query or one commit at a time, MaxRequests requests
\* in all.
RECURSIVE Taken(_)
Taken(ws) == IF ws = {} THEN 0
             ELSE LET w == CHOOSE w \in ws : TRUE
                  IN  inflight'[w].n + Taken(ws \ {w})

WithinSteps == Taken(Workers) <= MaxRequests

CheckLookup  == \E w \in Workers, c \in StepChannels :
                   check_lookup(w, OneSender, c) /\ WithinSteps /\ UNCHANGED now
CheckLog     == \E w \in Workers : check_log(w) /\ UNCHANGED now
CheckReturn  == \E w \in Workers : check_return(w) /\ UNCHANGED now
AddLookup    == \E w \in Workers, t \in StepAddTrust, c \in StepChannels :
                   add_lookup(w, OneSender, t, c) /\ WithinSteps /\ UNCHANGED now
AddCommit    == \E w \in Workers : add_commit(w) /\ UNCHANGED now
AddLog       == \E w \in Workers : add_log(w) /\ UNCHANGED now
UpdateLookup == \E w \in Workers, c \in StepChannels, t \in StepUpdateTrust :
                   update_lookup(w, OneSender, c, t) /\ WithinSteps /\ UNCHANGED now
UpdateCommit == \E w \in Workers : update_commit(w) /\ UNCHANGED now
UpdateLog    == \E w \in Workers : update_log(w) /\ UNCHANGED now
RemoveLookup == \E w \in Workers, c \in StepChannels :
                   remove_lookup(w, OneSender, c) /\ WithinSteps /\ UNCHANGED now
RemoveCommit == \E w \in Workers : remove_commit(w) /\ UNCHANGED now
RemoveLog    == \E w \in Workers : remove_log(w) /\ UNCHANGED now
NextRequest  == \E w \in Workers : next_request(w) /\ UNCHANGED now

NextSteps ==
    \/ CheckLookup \/ CheckLog \/ CheckReturn
    \/ AddLookup \/ AddCommit \/ AddLog
    \/ UpdateLookup \/ UpdateCommit \/ UpdateLog
    \/ RemoveLookup \/ RemoveCommit \/ RemoveLog
    \/ NextRequest

SpecSteps == Init /\ [][NextSteps]_vars


\* SpecCleanup: the retention cleanup runs while days pass and while contacts
\* are added and senders checked, each call advancing one query or one commit
\* at a time, MaxCleanupRequests requests in all.
WithinCleanup == Taken(Workers) <= MaxCleanupRequests

CleanupCutoff == \E w \in Workers, days \in RetentionDays :
                    cleanup_cutoff(w, days) /\ WithinCleanup /\ UNCHANGED now
CleanupDelete == \E w \in Workers : cleanup_delete(w) /\ UNCHANGED now
CleanupReturn == \E w \in Workers : cleanup_return(w) /\ UNCHANGED now
Tick == now < MaxNow /\ tick

CheckLookupCleanup == \E w \in Workers :
                         check_lookup(w, OneSender, None) /\ WithinCleanup /\ UNCHANGED now
AddLookupCleanup   == \E w \in Workers, t \in StepAddTrust :
                         add_lookup(w, OneSender, t, None) /\ WithinCleanup /\ UNCHANGED now

NextCleanup ==
    \/ CleanupCutoff \/ CleanupDelete \/ CleanupReturn \/ Tick
    \/ CheckLookupCleanup \/ CheckLog \/ CheckReturn
    \/ AddLookupCleanup \/ AddCommit \/ AddLog
    \/ NextRequest

SpecCleanup == Init /\ [][NextCleanup]_vars

\* SpecUpdates: the global contact of one sender is added and two workers
\* update its trust level at the same time, each call advancing one query or
\* one commit at a time, MaxUpdateRequests requests in all.
WithinUpdates == Taken(Workers) <= MaxUpdateRequests

AddLookupUpdates    == \E w \in Workers, t \in StepAddTrust :
                          add_lookup(w, OneSender, t, None) /\ WithinUpdates /\ UNCHANGED now
UpdateLookupUpdates == \E w \in Workers, t \in UpdateTrust :
                          update_lookup(w, OneSender, None, t) /\ WithinUpdates /\ UNCHANGED now

NextUpdates ==
    \/ AddLookupUpdates \/ AddCommit \/ AddLog
    \/ UpdateLookupUpdates \/ UpdateCommit \/ UpdateLog
    \/ NextRequest

SpecUpdates == Init /\ [][NextUpdates]_vars

----------------------------------------------------------------------------
(* Properties *)

\* The entry written by the last call that wrote one.
LastLog == audit_logs[Len(audit_logs)]

\* What check returns for a sender it cannot resolve.
UnknownSender == [allowed |-> FALSE, trust_level |-> "blocked", contact |-> NoId,
                  reason |-> "Unknown sender - not in whitelist"]

\* The records of a sender, under any channel or globally.
RecordsOf(sender_id) == {r \in contacts : r.sender_id = sender_id}

\* C1. Fail-closed: a check of a sender that has no contact record at all,
\* with any channel argument (none included), returns allowed = false,
\* trust_level = blocked, no contact and the reason "Unknown sender - not in
\* whitelist".
C1_FailClosed ==
    [][\A s \in Senders, c \in CheckChannels :
         (last'.op = "check" /\ RecordsOf(s) = {} /\ check(s, c, None))
            => last'.result = UnknownSender]_vars

\* An unknown sender was checked with a channel while the store held records
\* of another sender.
C1_Witness ==
    /\ last.op = "check"
    /\ last.result = UnknownSender
    /\ contacts # {}
    /\ RecordsOf(LastLog.sender_id) = {}
    /\ LastLog.channel = "telegram"

\* C2. Channel precedence: when the store holds a global record with level L1
\* and a record for channel c with level L2 for the same sender, a check with
\* no channel returns L1 and a check with channel c returns L2.
C2_ChannelPrecedence ==
    [][\A s \in Senders, c \in Channels \ {None} :
         \A g \in filter_by(contacts, s, None), r \in filter_by(contacts, s, c) :
            /\ (last'.op = "check" /\ check(s, None, None))
                  => last'.result.trust_level = g.trust_level
            /\ (last'.op = "check" /\ check(s, c, None))
                  => last'.result.trust_level = r.trust_level]_vars

\* C3. Global fallback: a check with channel c of a sender that has a global
\* record and no record for c resolves the global record and returns its
\* trust level and its allowed verdict.
C3_GlobalFallback ==
    [][\A s \in Senders, c \in CheckChannels \ {None} :
         (/\ last'.op = "check"
          /\ filter_by(contacts, s, None) # {}
          /\ filter_by(contacts, s, c) = {}
          /\ check(s, c, None))
            => \E g \in filter_by(contacts, s, None) :
                  /\ last'.result.contact = g.id
                  /\ last'.result.trust_level = g.trust_level
                  /\ last'.result.allowed = (g.trust_level # "blocked")]_vars

\* A check with channel "whatsapp" resolved the sender's global record.
C3_Witness ==
    /\ last.op = "check"
    /\ LastLog.channel = "whatsapp"
    /\ filter_by(contacts, LastLog.sender_id, "whatsapp") = {}
    /\ \E g \in filter_by(contacts, LastLog.sender_id, None) :
          /\ last.result.contact = g.id
          /\ last.result.allowed

\* C4. Channel isolation: when every record of a sender is scoped to a channel
\* other than c2 (and none is global), a check with channel c2, or with no
\* channel, returns the unknown-sender result whatever the levels of those
\* records.
C4_ChannelIsolation ==
    [][\A s \in Senders, c2 \in CheckChannels :
         (/\ last'.op = "check"
          /\ RecordsOf(s) # {}
          /\ \A r \in RecordsOf(s) : r.channel # None /\ r.channel # c2
          /\ check(s, c2, None))
            => last'.result = UnknownSender]_vars

\* A sender trusted on one channel was checked on another and came out unknown.
C4_Witness ==
    /\ last.op = "check"
    /\ last.result = UnknownSender
    /\ LastLog.channel = "whatsapp"
    /\ \E r \in RecordsOf(LastLog.sender_id) :
          r.channel = "telegram" /\ r.trust_level = "sovereign"

\* C5. Uniqueness: the contact store never holds two records with the same
\* (sender_id, channel) pair, the global pair (sender_id, null) included.
C5_Uniqueness ==
    \A a \in contacts, b \in contacts :
        (a.sender_id = b.sender_id /\ a.channel = b.channel) => a = b

\* An add of a pair that is already stored was refused.
C5_Witness ==
    /\ last.op = "add"
    /\ last.error # None
    /\ contacts # {}

\* C6. Duplicate add: an add of a pair (sender_id, channel) that is already
\* stored fails with the conflict error "already exists", and leaves the
\* contact store and the audit log unchanged.
C6_DuplicateAdd ==
    [][\A s \in Senders, c \in Channels, t \in TrustLevel :
         (/\ last'.op = "add"
          /\ filter_by(contacts, s, c) # {}
          /\ add_contact(s, t, c, None, None))
            => /\ last'.error = "ValueError: already exists"
               /\ contacts' = contacts
               /\ audit_logs' = audit_logs]_vars

\* C7. add decides conflict on the exact pair only: an add of a pair
\* (sender_id, channel) that is not stored succeeds, also when a global record
\* of the same sender is stored.
C7_AddExactPair ==
    [][\A s \in Senders, c \in Channels, t \in TrustLevel :
         (/\ last'.op = "add"
          /\ filter_by(contacts, s, c) = {}
          /\ add_contact(s, t, c, None, None))
            => /\ last'.error = None
               /\ filter_by(contacts', s, c) # {}]_vars

\* C8. update of a pair (sender_id, channel) that is not stored fails with
\* "not found", also when a global record of the sender is stored and a
\* channel was given; no contact is modified and no audit entry is written.
C8_UpdateNotFound ==
    [][\A s \in Senders, c \in Channels, t \in TrustLevel \cup {None} :
         (/\ last'.op = "update"
          /\ filter_by(contacts, s, c) = {}
          /\ update_contact(s, c, t, None, None))
            => /\ last'.error = "ValueError: not found"
               /\ contacts' = contacts
               /\ audit_logs' = audit_logs]_vars

\* C9. remove of a pair (sender_id, channel) that is not stored returns false
\* without raising and leaves the contact store and the audit log unchanged,
\* also when the sender has a record under another scope.
C9_RemoveMissing ==
    [][\A s \in Senders, c \in Channels :
         (/\ last'.op = "remove"
          /\ filter_by(contacts, s, c) = {}
          /\ remove_contact(s, c))
            => /\ last'.error = None
               /\ last'.result = FALSE
               /\ contacts' = contacts
               /\ audit_logs' = audit_logs]_vars

\* C10. Idempotent removal: when remove(sender_id, channel) has returned true,
\* an immediately following remove with the same arguments returns false and
\* raises no error.
C10_IdempotentRemoval ==
    [][\A s \in Senders, c \in Channels :
         (/\ last.op = "remove"
          /\ last.result = TRUE
          /\ LastLog.sender_id = s
          /\ LastLog.channel = c
          /\ last'.op = "remove"
          /\ remove_contact(s, c))
            => /\ last'.error = None
               /\ last'.result = FALSE]_vars

\* The audit entry a step has appended.
NewLog == audit_logs'[Len(audit_logs')]

\* A step appends exactly one audit entry and keeps the entries before it.
AppendsOne ==
    /\ Len(audit_logs') = Len(audit_logs) + 1
    /\ SubSeq(audit_logs', 1, Len(audit_logs)) = audit_logs

\* C11. Audit completeness: every check that returns appends exactly one audit
\* entry; its action is LIMITED when the returned level is limited, otherwise
\* ALLOWED when allowed and BLOCKED when not; it carries the request's
\* sender_id and channel, and its contact_id is the id of the resolved contact,
\* or null for an unknown sender.
C11_AuditCompleteness ==
    [][\A s \in Senders, c \in CheckChannels :
         (last'.op = "check" /\ check(s, c, None))
            => /\ AppendsOne
               /\ NewLog.action = (IF last'.result.trust_level = "limited" THEN "limited"
                                   ELSE IF last'.result.allowed THEN "allowed"
                                   ELSE "blocked")
               /\ NewLog.sender_id = s
               /\ NewLog.channel = c
               /\ NewLog.contact_id = last'.result.contact
               /\ \/ last'.result = UnknownSender
                  \/ \E k \in contacts : k.id = last'.result.contact]_vars

\* A check of a limited contact was logged as LIMITED with the contact's id.
C11_Witness ==
    /\ last.op = "check"
    /\ last.result.allowed
    /\ LastLog.action = "limited"
    /\ \E k \in contacts : k.id = LastLog.contact_id /\ k.trust_level = "limited"

\* The reason check gives for a resolved contact of a level.
ReasonOf(level) ==
    CASE level = "blocked" -> "Sender is explicitly blocked"
      [] level = "limited" -> "Sender has limited access"
      [] level = "trusted" -> "Sender is trusted"
      [] level = "sovereign" -> "Sender is sovereign"

\* C12. Decision rule: whenever check resolves a contact, the returned
\* trust_level is that contact's level, allowed is true exactly when the level
\* is not blocked, and the reason is the one of the level.
C12_DecisionRule ==
    [][\A s \in Senders, c \in CheckChannels :
         (/\ last'.op = "check"
          /\ last'.result.contact # NoId
          /\ check(s, c, None))
            => \E k \in contacts :
                  /\ k.id = last'.result.contact
                  /\ last'.result.trust_level = k.trust_level
                  /\ last'.result.allowed = (k.trust_level # "blocked")
                  /\ last'.result.reason = ReasonOf(k.trust_level)]_vars

\* A check resolved a limited contact and allowed it with the limited reason.
C12_Witness ==
    /\ last.op = "check"
    /\ last.result.trust_level = "limited"
    /\ last.result.allowed
    /\ last.result.reason = "Sender has limited access"
    /\ \E k \in contacts : k.id = last.result.contact

\* C13. check is read-only on the contact store: a check adds, removes and
\* modifies no contact; its only state change is the appended audit entry.
C13_CheckReadOnly ==
    [][\A s \in Senders, c \in CheckChannels :
         (last'.op = "check" /\ check(s, c, None))
            => /\ contacts' = contacts
               /\ next_id' = next_id
               /\ AppendsOne]_vars

\* A check of an unknown sender ran while another sender's contact was stored.
C13_Witness ==
    /\ last.op = "check"
    /\ last.result = UnknownSender
    /\ contacts # {}
    /\ RecordsOf(LastLog.sender_id) = {}

\* The fields of an audit entry that no operation rewrites.
Written(e) == [action |-> e.action, sender_id |-> e.sender_id, channel |-> e.channel,
               message_preview |-> e.message_preview,
               decision_reason |-> e.decision_reason,
               metadata_json |-> e.metadata_json]

\* C17. Append-only audit log: no check, add, update or remove deletes an
\* audit entry or changes its action, sender_id, channel, message_preview,
\* decision_reason or metadata.
C17_AppendOnly ==
    [][/\ Len(audit_logs') >= Len(audit_logs)
       /\ \A i \in DOMAIN audit_logs :
             Written(audit_logs'[i]) = Written(audit_logs[i])]_vars

\* A contact was removed after its CONTACT_ADDED entry was written, and the
\* entry is still first in the log.
C17_Witness ==
    /\ last.op = "remove"
    /\ last.result = TRUE
    /\ Len(audit_logs) = 2
    /\ audit_logs[1].action = "contact_added"
    /\ audit_logs[1].contact_id = NoId

\* C18. Removing a contact deletes no audit entry: every entry that referenced
\* the removed contact is kept with its contact reference null, and the removal
\* changes no other contact and no other audit entry.
C18_RemoveKeepsAudit ==
    [][\A c \in Channels :
         (/\ last'.op = "remove"
          /\ last'.result = TRUE
          /\ remove_contact(OneSender, c))
            => \E k \in contacts :
                  /\ contacts' = contacts \ {k}
                  /\ Len(audit_logs') = Len(audit_logs) + 1
                  /\ \A i \in DOMAIN audit_logs :
                        audit_logs'[i] = IF audit_logs[i].contact_id = k.id
                                         THEN [audit_logs[i] EXCEPT !.contact_id = NoId]
                                         ELSE audit_logs[i]]_vars

\* A contact was removed while another one stayed: the entry of the removed one
\* has lost its reference, the entry of the other one has kept it.
C18_Witness ==
    /\ last.op = "remove"
    /\ last.result = TRUE
    /\ \E i \in DOMAIN audit_logs :
          audit_logs[i].action = "contact_added" /\ audit_logs[i].contact_id = NoId
    /\ \E i \in DOMAIN audit_logs, k \in contacts :
          audit_logs[i].action = "contact_added" /\ audit_logs[i].contact_id = k.id

\* What a successful add of the given arguments leaves behind.
Added(s, t, c, n, x) ==
    \E k \in contacts' :
       /\ k \notin contacts
       /\ \A o \in contacts : o.id # k.id
       /\ contacts' = contacts \cup {k}
       /\ k.sender_id = s /\ k.channel = c /\ k.trust_level = t
       /\ k.name = n /\ k.notes = x
       /\ last'.result = k
       /\ AppendsOne
       /\ NewLog.action = "contact_added"
       /\ NewLog.contact_id = k.id
       /\ NewLog.decision_reason = "Added with trust level " \o t

\* C19. A successful add creates exactly one contact with the given sender_id,
\* channel, trust level (trusted when none is given), name and notes, and
\* appends exactly one CONTACT_ADDED entry that references the new contact and
\* whose reason names the assigned level.
C19_AddCreates ==
    [][/\ \A t \in OneTrust, c \in Channels, n \in Names, x \in Notes :
            (/\ last'.op = "add"
             /\ last'.error = None
             /\ add_contact(OneSender, t, c, n, x))
               => Added(OneSender, t, c, n, x)
       /\ \A c \in Channels, n \in Names, x \in Notes :
            (/\ last'.op = "add"
             /\ last'.error = None
             /\ add_contact_default(OneSender, c, n, x))
               => Added(OneSender, "trusted", c, n, x)]_vars

\* A contact with a name and notes was added as trusted on a channel.
C19_Witness ==
    /\ last.op = "add"
    /\ last.error = None
    /\ last.result \in contacts
    /\ last.result.trust_level = "trusted"
    /\ last.result.channel = "telegram"
    /\ last.result.name = "Ann"
    /\ last.result.notes = "vip"
    /\ LastLog.action = "contact_added"
    /\ LastLog.contact_id = last.result.id

\* C20. Every successful update appends exactly one audit entry: TRUST_CHANGED,
\* naming the old and the new level, if and only if a trust_level was supplied
\* and differs from the contact's level before the call; otherwise
\* CONTACT_UPDATED.
C20_UpdateAudit ==
    [][\A c \in Channels, t \in OneTrust \cup {None}, n \in Names, x \in Notes :
         (/\ last'.op = "update"
          /\ last'.error = None
          /\ update_contact(OneSender, c, t, n, x))
            => \E k \in contacts :
                  /\ k.id = last'.result.id
                  /\ AppendsOne
                  /\ NewLog.action \in {"trust_changed", "contact_updated"}
                  /\ NewLog.action = "trust_changed"
                        <=> (t # None /\ t # k.trust_level)
                  /\ NewLog.action = "trust_changed"
                        => NewLog.decision_reason =
                             "Trust changed from " \o k.trust_level \o " to " \o t]_vars

\* An update changed the level of a contact and was logged as TRUST_CHANGED.
C20_Witness ==
    /\ last.op = "update"
    /\ last.error = None
    /\ LastLog.action = "trust_changed"
    /\ LastLog.decision_reason = "Trust changed from trusted to blocked"
    /\ last.result.trust_level = "blocked"

\* An update with the level the contact already has was logged as
\* CONTACT_UPDATED.
C20_WitnessSame ==
    /\ last.op = "update"
    /\ last.error = None
    /\ LastLog.action = "contact_updated"
    /\ audit_logs[1].action = "contact_added"
    /\ audit_logs[1].decision_reason = "Added with trust level blocked"
    /\ last.result.trust_level = "blocked"

\* C14. Concurrent add: when two adds of the same (sender_id, channel) pair,
\* the global pair included, run at the same time with their lookups and
\* inserts interleaved, they do not both succeed, and the store ends with one
\* record for the pair.
C14_ConcurrentAdd ==
    \A w, v \in Workers :
       (/\ w # v
        /\ inflight[w].op = "add" /\ inflight[w].pc = "done"
        /\ inflight[v].op = "add" /\ inflight[v].pc = "done"
        /\ inflight[w].sender_id = inflight[v].sender_id
        /\ inflight[w].channel = inflight[v].channel
        /\ inflight[w].error = None
        /\ inflight[v].error = None)
          => Cardinality(filter_by(contacts, inflight[w].sender_id,
                                   inflight[w].channel)) <= 1

\* C15. All-or-nothing: no state is reachable in which an add has committed its
\* contact without the CONTACT_ADDED entry of that contact.
C15_AllOrNothing ==
    \A k \in contacts :
       \E i \in DOMAIN audit_logs :
          /\ audit_logs[i].action = "contact_added"
          /\ audit_logs[i].contact_id = k.id

\* C16. Durability ordering: a check that has returned its decision to the
\* caller has committed the audit entry of that decision before; a check whose
\* audit write failed has returned no decision.
C16_DurabilityOrdering ==
    \A w \in Workers :
       (inflight[w].op = "check" /\ inflight[w].pc = "done")
          => LET f == inflight[w]
                 result == CheckResult(f.contact)
             IN  /\ f.result = "CheckResult"
                      => /\ f.log_entry \in DOMAIN audit_logs
                         /\ audit_logs[f.log_entry].sender_id = f.sender_id
                         /\ audit_logs[f.log_entry].channel = f.channel
                         /\ audit_logs[f.log_entry].action = check_action(result)
                         /\ audit_logs[f.log_entry].decision_reason = result.reason
                 /\ f.log_entry = NoId => f.result = None /\ f.error # None

\* One check has returned an allowed decision whose entry is in the log, while
\* the check of the other worker has failed at its audit write and returned
\* nothing.
C16_Witness ==
    \E w, v \in Workers :
       /\ inflight[w].op = "check" /\ inflight[w].pc = "done"
       /\ inflight[w].result = "CheckResult"
       /\ CheckResult(inflight[w].contact).allowed
       /\ audit_logs[inflight[w].log_entry].action = "allowed"
       /\ inflight[v].op = "check" /\ inflight[v].pc = "done"
       /\ inflight[v].error = "commit failed"
       /\ inflight[v].result = None

\* C21. Partial update: a successful update changes, on the one contact it
\* resolved, only the fields among trust_level, name and notes that were
\* supplied; the omitted fields, the contact's id, sender_id and channel, and
\* every other contact are unchanged.
C21_PartialUpdate ==
    [][\A c \in StepChannels, t \in OneTrust \cup {None}, n \in Names, x \in Notes :
         (/\ last'.op = "update"
          /\ last'.error = None
          /\ update_contact(OneSender, c, t, n, x))
            => \E k \in contacts :
                  /\ k.id = last'.result.id
                  /\ last'.result =
                        [id |-> k.id, sender_id |-> k.sender_id, channel |-> k.channel,
                         trust_level |-> IF t = None THEN k.trust_level ELSE t,
                         name |-> IF n = None THEN k.name ELSE n,
                         notes |-> IF x = None THEN k.notes ELSE x]
                  /\ contacts' = (contacts \ {k}) \cup {last'.result}
                  /\ next_id' = next_id]_vars

\* An update that supplied only a trust level changed it on a contact that has
\* kept its name and notes, while the sender's other contact is as it was added.
C21_Witness ==
    /\ last.op = "update"
    /\ last.error = None
    /\ LastLog.action = "trust_changed"
    /\ last.result \in contacts
    /\ last.result.name = "Ann"
    /\ last.result.notes = "vip"
    /\ last.result.trust_level = "blocked"
    /\ \E o \in contacts :
          /\ o.id # last.result.id
          /\ o.trust_level = "trusted"
          /\ o.name = None

\* C22. A successful remove(sender_id, channel) returns true, deletes exactly
\* the one contact whose pair is exactly (sender_id, channel) and no other, and
\* appends exactly one CONTACT_REMOVED entry for that sender_id and channel.
C22_RemoveSuccess ==
    [][\A s \in Senders, c \in Channels :
         (/\ last'.op = "remove"
          /\ last'.result = TRUE
          /\ remove_contact(s, c))
            => /\ \E k \in filter_by(contacts, s, c) : contacts' = contacts \ {k}
               /\ Len(audit_logs') = Len(audit_logs) + 1
               /\ NewLog.action = "contact_removed"
               /\ NewLog.sender_id = s
               /\ NewLog.channel = c]_vars

\* An add has just failed with a conflict, found by the lookup or by the
\* unique index.
AddConflict ==
    /\ last.op = "add"
    /\ last.error \in {"ValueError: already exists", "IntegrityError"}

\* C23. After an add has failed with a conflict, however the conflict was
\* detected, the service remains usable: the next add, of a pair of a sender
\* that has no record, succeeds, and the next check returns the decision of
\* the store.
C23_UsableAfterConflict ==
    [][/\ \A s \in Senders, t \in OneTrust, c \in Channels :
            (/\ AddConflict
             /\ RecordsOf(s) = {}
             /\ last'.op = "add"
             /\ add_in_context(s, t, c, None, None))
               => /\ last'.error = None
                  /\ last'.result \in contacts'
                  /\ last'.result.sender_id = s
                  /\ last'.result.channel = c
       /\ \A s \in Senders, c \in Channels :
            (/\ AddConflict
             /\ last'.op = "check"
             /\ check_in_context(s, c, None))
               => /\ last'.error = None
                  /\ \E k \in find_contact(contacts, s, c) :
                        last'.result = CheckResult(k)]_vars

\* C24. Truncation: the preview a check stores is its message_preview unchanged
\* when that has at most 500 characters; otherwise it has exactly 500
\* characters, the first 497 of the input followed by "...".  No audit entry
\* stores a preview of more than 500 characters.
C24_Truncation ==
    [][\A c \in StepChannels, p \in LongPreviews :
         (last'.op = "check" /\ check(OneSender, c, p))
            => /\ Len(p) <= 500 => NewLog.message_preview = p
               /\ Len(p) > 500
                     => /\ Len(NewLog.message_preview) = 500
                        /\ SubSeq(NewLog.message_preview, 1, 497) = SubSeq(p, 1, 497)
                        /\ SubSeq(NewLog.message_preview, 498, 500) = "..."
               /\ \A i \in DOMAIN audit_logs' :
                     Len(audit_logs'[i].message_preview) <= 500]_vars

\* A preview of 500 characters was stored as it is, then one of 501 characters
\* was stored cut after its 497th character.
C24_Witness ==
    /\ last.op = "check"
    /\ Len(audit_logs) = 2
    /\ audit_logs[1].message_preview = Pad(495) \o "stuvw"
    /\ audit_logs[2].message_preview = Pad(495) \o "st..."

\* The stores that agree with store on every contact's sender_id, channel and
\* trust_level: names and notes are any, ids are kept or mirrored.
Agreeing(store) ==
    { {[k EXCEPT !.name = f[k][1], !.notes = f[k][2],
                 !.id = IF mirror THEN next_id - k.id ELSE k.id] : k \in store}
        : f \in [store -> Names \X Notes], mirror \in BOOLEAN }

\* C25. The check decision depends only on (sender_id, channel) and the trust
\* levels in the store: the allowed and trust_level a check returns are those
\* a check of the same sender_id and channel returns from any store that
\* agrees on every contact's sender_id, channel and trust_level, whatever the
\* names and notes, the message_preview and the audit log.
C25_DecisionIndependence ==
    [][\A c \in Channels, p \in Previews :
         (last'.op = "check" /\ check(OneSender, c, p))
            => \A other \in Agreeing(contacts) :
                  \A k \in find_contact(other, OneSender, c) :
                     /\ CheckResult(k).allowed = last'.result.allowed
                     /\ CheckResult(k).trust_level = last'.result.trust_level]_vars

\* A check with a message preview has blocked a contact that has a name and
\* notes.
C25_Witness ==
    /\ last.op = "check"
    /\ ~last.result.allowed
    /\ LastLog.message_preview = "hi"
    /\ \E k \in contacts :
          /\ k.id = last.result.contact
          /\ k.name = "Ann"
          /\ k.notes = "vip"

\* C26. A check invoked without a usable session or context raises a runtime
\* error, returns no CheckResult (not the unknown-sender result either) and
\* writes no audit entry.
C26_NoContext ==
    [][\A s \in Senders, c \in Channels :
         (last'.op = "check" /\ check_with_context(FALSE, s, c, None))
            => /\ last'.error = "RuntimeError"
               /\ last'.result = NoResult
               /\ last'.result # UnknownSender
               /\ audit_logs' = audit_logs
               /\ contacts' = contacts]_vars

\* A check outside of an application context has raised, for a sender the
\* store knows, after one audited call.
C26_Witness ==
    /\ last.op = "check"
    /\ last.error = "RuntimeError"
    /\ last.result = NoResult
    /\ contacts # {}
    /\ Len(audit_logs) = 1

\* C27. Audit read limit: whatever integer the limit parameter of the audit
\* read API is (zero, negative and above 1000 included), the read returns at
\* most 1000 entries.
C27_AuditReadLimit ==
    last.op = "list_audit_logs" => last.result.count <= 1000

\* A sender_id that is missing, null, empty, or empty once trimmed.
Blank(sender_id) ==
    sender_id \in {Missing, None} \/ strip(sender_id) = ""

\* C28. Check API input validation: a check request whose sender_id is
\* missing, null, empty, or empty after trimming is rejected as a validation
\* error on the POST and on the GET entry point, makes no decision and appends
\* no audit entry.
C28_CheckValidation ==
    [][/\ \A sender_id \in SenderInputs, c \in StepChannels :
            (/\ Blank(sender_id)
             /\ last'.op = "check"
             /\ check_sender(sender_id, c))
               => /\ last'.error # None
                  /\ last'.result = NoResult
                  /\ audit_logs' = audit_logs
       /\ \A sender_id \in PathSenders, c \in StepChannels :
            (/\ Blank(sender_id)
             /\ last'.op = "check"
             /\ check_sender_get(sender_id, c))
               => /\ last'.error # None
                  /\ last'.result = NoResult
                  /\ audit_logs' = audit_logs]_vars

\* C29. Contact-create validation: no contact whose sender_id is empty after
\* trimming is stored through the create API, and a create request whose
\* sender_id is only whitespace is rejected as a validation error and changes
\* neither the store nor the audit log.
C29_CreateValidation ==
    [][/\ \A k \in contacts' : strip(k.sender_id) # ""
       /\ \A sender_id \in SenderInputs, t \in TrustInputs, c \in StepChannels :
            (/\ Blank(sender_id)
             /\ last'.op = "add"
             /\ create_contact(sender_id, t, c))
               => /\ last'.error = "400 Validation failed"
                  /\ contacts' = contacts
                  /\ audit_logs' = audit_logs]_vars

\* The step is a request refused as a validation error, with no effect.
Rejected ==
    /\ last'.error = "400 Validation failed"
    /\ contacts' = contacts
    /\ audit_logs' = audit_logs

\* C30. Strict trust-level validation: a create or update request whose
\* trust_level string is not exactly one of the four levels is rejected as a
\* client input error, is not coerced to blocked, and leaves the store and the
\* audit log unchanged.  (Stated by contraposition: a step that is not such a
\* rejection is not the step of a request with an unrecognised trust_level.)
C30_TrustLevelValidation ==
    [][/\ (last'.op = "add" /\ ~Rejected)
            => \A sender_id \in SenderInputs, c \in StepChannels,
                  t \in TrustInputs \ (TrustLevel \cup {Missing}) :
                    ~create_contact(sender_id, t, c)
       /\ (last'.op = "update" /\ ~Rejected)
            => \A sender_id \in PathSenders \ {""}, c \in StepChannels,
                  t \in TrustInputs \ (TrustLevel \cup {Missing, None}) :
                    ~api_update_contact(sender_id, c, t)]_vars

\* A request with an unrecognised trust_level was rejected while the store
\* holds a contact that the request would have changed or duplicated.
C30_Witness ==
    /\ last.op \in {"add", "update"}
    /\ last.error = "400 Validation failed"
    /\ \E k \in contacts : k.sender_id = "+441" /\ k.trust_level = "trusted"
    /\ Len(audit_logs) = 1

\* C31. Free-text trust-level parsing is total and safe: from_string returns
\* the matching level for every case variant of the four level names, returns
\* blocked for every other string (the empty one included), and never raises.
C31_FromStringTotal ==
    last.op = "from_string"
        => /\ last.error = None
           /\ \A level \in TrustLevel :
                 last.result.value \in CaseVariants(level) => last.result.level = level
           /\ (\A level \in TrustLevel : last.result.value \notin CaseVariants(level))
                 => last.result.level = "blocked"

\* A mixed-case spelling was parsed to its level.
C31_Witness ==
    /\ last.op = "from_string"
    /\ last.result.value = "tRuStEd"
    /\ last.result.level = "trusted"

\* The record of the store that a check result names.
Resolved(result) == CHOOSE k \in contacts : k.id = result.contact

\* C32. Capability predicates: is_allowed holds exactly when the level is not
\* blocked, can_trigger_actions exactly when it is sovereign or trusted,
\* is_sovereign exactly when it is sovereign; so is_sovereign implies
\* can_trigger_actions, which implies is_allowed; and the allowed verdict of a
\* check that resolved a contact equals that contact's is_allowed.
C32_Capabilities ==
    /\ \A k \in contacts :
          /\ is_allowed(k) <=> k.trust_level # "blocked"
          /\ can_trigger_actions(k) <=> k.trust_level \in {"sovereign", "trusted"}
          /\ is_sovereign(k) <=> k.trust_level = "sovereign"
          /\ is_sovereign(k) => can_trigger_actions(k)
          /\ can_trigger_actions(k) => is_allowed(k)
    /\ (last.op = "check" /\ last.error = None /\ last.result.contact # NoId)
          => last.result.allowed = is_allowed(Resolved(last.result))

\* A check resolved a limited contact: allowed, though it cannot trigger
\* actions.
C32_Witness ==
    /\ last.op = "check"
    /\ last.result.contact # NoId
    /\ last.result.allowed
    /\ is_allowed(Resolved(last.result))
    /\ ~can_trigger_actions(Resolved(last.result))

\* C33. list(trust_level?, channel?) returns exactly the contacts that satisfy
\* every supplied filter (trust: equal level; channel c: channel equal to c or
\* null), newest-created first; with no filter it returns every contact.
C33_ListFilters ==
    last.op = "list"
        => LET listed == last.result.contacts
               wanted == {k \in contacts :
                            /\ last.result.trust_level # None
                                  => k.trust_level = last.result.trust_level
                            /\ last.result.channel # None
                                  => k.channel \in {last.result.channel, None}}
           IN  /\ {listed[i] : i \in DOMAIN listed} = wanted
               /\ Len(listed) = Cardinality(wanted)
               /\ \A i, j \in DOMAIN listed :
                     i < j => created_at(listed[i]) > created_at(listed[j])

\* The sum of the values of a function with a finite domain.
RECURSIVE SumOf(_)
SumOf(f) ==
    IF DOMAIN f = {} THEN 0
    ELSE LET x == CHOOSE y \in DOMAIN f : TRUE
         IN  f[x] + SumOf([y \in DOMAIN f \ {x} |-> f[y]])

C35_AddThenCheck ==
    [][(/\ last.op = "add"
        /\ last.error = None
        /\ last'.op = "check"
        /\ NewLog.sender_id = last.result.sender_id
        /\ NewLog.channel = last.result.channel)
          => /\ last'.result.contact = last.result.id
             /\ last'.result.trust_level = last.result.trust_level
             /\ last'.result.allowed = (last.result.trust_level # "blocked")]_vars

\* The entries of a log that were created before a cutoff.
Older(log, cutoff) == SelectSeq(log, LAMBDA e : e.created_at < cutoff)

\* The entries of a log that were created at a cutoff or after it.
NotOlder(log, cutoff) == SelectSeq(log, LAMBDA e : e.created_at >= cutoff)

C37_ReferentialIntegrity ==
    \A i \in DOMAIN audit_logs :
       \/ audit_logs[i].contact_id = NoId
       \/ \E k \in contacts : k.id = audit_logs[i].contact_id

\* The positions of the TRUST_CHANGED entries of a contact, and the new level
\* that such an entry names.
TrustChanges(id) ==
    {i \in DOMAIN audit_logs : /\ audit_logs[i].action = "trust_changed"
                               /\ audit_logs[i].contact_id = id}

NewLevel(e) ==
    CHOOSE new \in TrustLevel :
       \E old \in TrustLevel :
          e.decision_reason = "Trust changed from " \o old \o " to " \o new

\* Worker w is in the middle of an update.
Updating(w) ==
    inflight[w].op = "update" /\ inflight[w].pc \in {"update_commit", "update_log"}

\* No update is running, and the level of every contact is the new level of
\* its latest TRUST_CHANGED entry, or the level it was added with.
Reconstructs ==
    (\A w \in Workers : ~Updating(w))
       => \A k \in contacts :
             IF TrustChanges(k.id) # {}
             THEN LET latest == CHOOSE i \in TrustChanges(k.id) :
                                   \A j \in TrustChanges(k.id) : j <= i
                  IN  k.trust_level = NewLevel(audit_logs[latest])
             ELSE k.trust_level \in StepAddTrust

\* C38. The audit trail reconstructs trust state: after any sequence and any
\* interleaving of updates of a contact, its trust level is the new level of
\* the TRUST_CHANGED entry written last for it (the level it was added with
\* if there is none), and the old level of each TRUST_CHANGED entry is the
\* level the contact held right before that change was committed.
C38_TrailReconstructs ==
    [][/\ Reconstructs'
       /\ \A w \in Workers :
            (/\ inflight[w].pc = "update_commit"
             /\ inflight'[w].pc = "update_log"
             /\ inflight[w].trust_level # inflight[w].old_trust)
               => \A k \in contacts :
                     k.id = inflight[w].contact.id
                        => k.trust_level = inflight[w].old_trust]_vars

\* C39. Admin endpoint authentication: with an API token configured, the
\* handler of a protected endpoint runs only for a request whose Authorization
\* header is "Bearer " followed by exactly the token; a missing or malformed
\* header is answered 401, a wrong token 403; authentication is bypassed only
\* when no token is configured.
C39_Authentication ==
    [][\A api_token \in ApiTokens \ {None, ""}, remote_addr \in RemoteAddrs,
          authorization \in AuthHeaders, s \in Senders, t \in OneTrust,
          c \in StepChannels :
            (/\ authorization # "Bearer " \o api_token
             /\ protected_create_contact(api_token, remote_addr, authorization, s, t, c))
               => /\ last'.op = "auth"
                  /\ last'.error = IF authorization # Missing
                                      /\ startswith(authorization, "Bearer ")
                                   THEN "403" ELSE "401"
                  /\ UNCHANGED <<contacts, audit_logs>>]_vars

TypeOK ==
    /\ \A c \in contacts : c.id \in 1..(next_id - 1) /\ c.trust_level \in TrustLevel
    /\ \A i \in DOMAIN audit_logs : audit_logs[i].action \in AuditAction

====
